---- MODULE Spec2Model ----
(***************************************************************************)
(* Payment submission and status reconciliation flow of the ZakatNOW       *)
(* calculator: class SecurePayService and its DOMContentLoaded wiring.     *)
(*                                                                         *)
(* Two scripts of the repository define the service:                       *)
(*   "securepay"  src/scripts/payment.js   (SecurePay.my integration)      *)
(*   "legacy"     src/unnamed/part_000     (earlier SecurePay mock)        *)
(* A page loads one of them; the variable `variant` says which.            *)
(*                                                                         *)
(* Strings the code inspects character by character (the amount field) are *)
(* sequences of one-character strings; other strings are TLA+ strings.     *)
(* The JavaScript value undefined / null is the string "undefined".        *)
(***************************************************************************)
EXTENDS Naturals, Integers, Sequences, FiniteSets, TLC

(***************************************************************************)
(* Bounds of the model                                                     *)
(***************************************************************************)
\* accepted submissions per behaviour
MaxSubmits == 2
\* page loads (first load, refreshes, returns from the gateway) per behaviour
MaxLoads == 2
\* pending 5000 ms message-hide timers a rejected submission may add to
MaxHideTimers == 1

Undefined == "undefined"

(***************************************************************************)
(* parseFloat on a sequence of characters                                  *)
(***************************************************************************)
DigitChars == <<"0", "1", "2", "3", "4", "5", "6", "7", "8", "9">>

IsDigit(c) == \E i \in 1..10 : DigitChars[i] = c

DigitVal(c) == (CHOOSE i \in 1..10 : DigitChars[i] = c) - 1

\* number of fractional decimal digits the model's numbers keep (thousandths)
FracDigits == 3

NaN == [nan |-> TRUE, neg |-> FALSE, mag |-> 0]

\* index of the first character of s, from i on, that is not white space
RECURSIVE SkipWhiteSpace(_, _)
SkipWhiteSpace(s, i) ==
    IF i <= Len(s) /\ s[i] = " " THEN SkipWhiteSpace(s, i + 1) ELSE i

\* number of consecutive decimal digits of s from index i on
RECURSIVE CountDigits(_, _)
CountDigits(s, i) ==
    IF i <= Len(s) /\ IsDigit(s[i]) THEN 1 + CountDigits(s, i + 1) ELSE 0

\* value of the n digits of s that start at index i, as an integer
RECURSIVE DigitsValue(_, _, _)
DigitsValue(s, i, n) ==
    IF n = 0 THEN 0
    ELSE DigitsValue(s, i, n - 1) * 10 + DigitVal(s[i + n - 1])

\* value of the n fractional digits of s that start at index i, in units of
\* 10^-FracDigits (digits beyond FracDigits are dropped; the inputs of the
\* model have at most FracDigits of them)
RECURSIVE FractionValue(_, _, _, _)
FractionValue(s, i, n, k) ==
    IF k = 0 THEN 0
    ELSE (IF n > 0 THEN DigitVal(s[i]) ELSE 0) * (10 ^ (k - 1))
         + FractionValue(s, i + 1, IF n > 0 THEN n - 1 ELSE 0, k - 1)

\* parseFloat(s): the longest prefix of the trimmed string that is a decimal
\* literal [+-] digits [. digits] or [+-] . digits; NaN when there is none.
\* The result is [nan, neg, mag] with mag = |value| * 10^FracDigits.
parseFloat(s) ==
    LET a  == SkipWhiteSpace(s, 1)
        sg == a <= Len(s) /\ s[a] \in {"+", "-"}
        b  == IF sg THEN a + 1 ELSE a
        ni == CountDigits(s, b)
        dt == b + ni <= Len(s) /\ s[b + ni] = "."
        nf == IF dt THEN CountDigits(s, b + ni + 1) ELSE 0
    IN  IF ni = 0 /\ nf = 0 THEN NaN
        ELSE [nan |-> FALSE,
              neg |-> sg /\ s[a] = "-",
              mag |-> DigitsValue(s, b, ni) * (10 ^ FracDigits)
                      + FractionValue(s, b + ni + 1, nf, FracDigits)]

\* x <= 0 for a parseFloat result (every comparison with NaN is false)
LessOrEqualZero(x) == ~x.nan /\ (x.mag = 0 \/ x.neg)

\* !paymentAmount for the value of an input element: only "" is falsy
IsFalsyString(s) == s = <<>>

(***************************************************************************)
(* mapPaymentMethod / formatPaymentMethod: lookups in an object literal    *)
(***************************************************************************)
\* names every object literal inherits from Object.prototype (the ones the
\* model draws method codes from); obj[name] is then a function, a truthy value
InheritedNames == {"constructor"}

InheritedValue == "[function]"

mapPaymentMethod(internalMethod) ==
    CASE internalMethod = "fpx"    -> "fpx"
      [] internalMethod = "card"   -> "card"
      [] internalMethod = "wallet" -> "boost"
      [] internalMethod = "qr"     -> "duitnow_qr"
      [] internalMethod \in InheritedNames -> InheritedValue
      [] OTHER -> "fpx"

\* !paymentMethod, !customerEmail: undefined and "" are falsy
IsFalsy(v) == v = Undefined \/ v = ""

(***************************************************************************)
(* Number.prototype.toFixed(2) of a parseFloat result                      *)
(***************************************************************************)
\* significand bits of an IEEE 754 double
MantissaBits == 53

\* number of bits of the positive integer q
RECURSIVE BitLength(_)
BitLength(q) == IF q = 0 THEN 0 ELSE 1 + BitLength(q \div 2)

\* The double nearest to q + r/d (0 <= r < d) against that exact value, from
\* the binary expansion of the fraction: `left` significand bits are still to
\* be produced (MantissaBits until the first 1 bit has been seen), `odd` is the
\* last bit produced.  Result: -1 the double is below, 0 equal, 1 above.
RECURSIVE RoundingSide(_, _, _, _, _)
RoundingSide(r, d, left, started, odd) ==
    IF r = 0 THEN 0
    ELSE IF left = 0
         THEN IF 2 * r > d THEN 1
              ELSE IF 2 * r < d THEN -1
              ELSE IF odd THEN 1 ELSE -1
         ELSE LET bit == 2 * r >= d
                  rr  == IF bit THEN 2 * r - d ELSE 2 * r
              IN  IF started \/ bit
                  THEN RoundingSide(rr, d, left - 1, TRUE, bit)
                  ELSE RoundingSide(rr, d, left, FALSE, FALSE)

\* sign of double(mag / 10^FracDigits) - mag / 10^FracDigits
DoubleSide(mag) ==
    LET d == 10 ^ FracDigits
        q == mag \div d
    IN  RoundingSide(mag % d, d, MantissaBits - BitLength(q), q > 0, q % 2 = 1)

\* decimal digits of the natural number n, as characters
RECURSIVE NatToChars(_)
NatToChars(n) ==
    IF n < 10 THEN <<DigitChars[n + 1]>>
    ELSE NatToChars(n \div 10) \o <<DigitChars[(n % 10) + 1]>>

\* x.toFixed(2): the integer n for which n/100 - x is closest to zero, x being
\* the double; of two such n the larger one
toFixed2(x) ==
    IF x.nan THEN <<"N", "a", "N">>
    ELSE LET unit == 10 ^ (FracDigits - 2)
             lo   == x.mag \div unit
             rem  == x.mag % unit
             up   == \/ 2 * rem > unit
                     \/ 2 * rem = unit /\ DoubleSide(x.mag) >= 0
             n    == IF up THEN lo + 1 ELSE lo
         IN  (IF x.neg /\ x.mag > 0 THEN <<"-">> ELSE <<>>)
             \o NatToChars(n \div 100)
             \o <<".", DigitChars[((n \div 10) % 10) + 1], DigitChars[(n % 10) + 1]>>

(***************************************************************************)
(* The visible location's query, URLSearchParams and href concatenation    *)
(***************************************************************************)
\* location.search as the sequence of its name/value pairs
Pair(k, v) == [k |-> k, v |-> v]

\* URLSearchParams.get(name): the first value of that name, or null
RECURSIVE SearchGet(_, _)
SearchGet(search, name) ==
    IF search = <<>> THEN Undefined
    ELSE IF Head(search).k = name THEN Head(search).v
    ELSE SearchGet(Tail(search), name)

\* a clean-up that edits a copy of the URL and never puts it back
SearchDeleteNoReplace(search, name) == search

\* searchParams.delete(name): every pair of that name is removed
SearchDelete(search, name) == SelectSeq(search, LAMBDA p : p.k # name)

\* window.location.href + '?payment_status=' + status, read back as a query:
\* with a query already present the text lands in the last pair's value
HrefPlusStatus(search, status) ==
    IF search = <<>> THEN <<Pair("payment_status", status)>>
    ELSE [search EXCEPT ![Len(search)].v = @ \o "?payment_status=" \o status]

(***************************************************************************)
(* JSON.stringify / JSON.parse of the payment history                      *)
(*                                                                         *)
(* A JavaScript object is a function from its property names to values; a  *)
(* JSON text is the sequence of its tokens.  A string value is written as  *)
(* its content between two quote tokens (the amount, a string the code     *)
(* parses, as its characters), a number as its decimal digits.             *)
(***************************************************************************)
Quote == "\""

\* the properties of the objects the code stores, in the order they are set
FieldOrder ==
    <<"success", "status", "id", "transaction_id", "transactionId",
      "amount", "method", "date", "timestamp">>

FieldType(key) ==
    CASE key = "amount"    -> "chars"
      [] key = "timestamp" -> "number"
      [] key = "success"   -> "boolean"
      [] OTHER             -> "string"

StringifyValue(key, v) ==
    CASE FieldType(key) = "chars"   -> <<Quote>> \o v \o <<Quote>>
      [] FieldType(key) = "number"  -> NatToChars(v)
      [] FieldType(key) = "boolean" -> <<IF v THEN "true" ELSE "false">>
      [] OTHER                      -> <<Quote, v, Quote>>

\* the members of obj from position i of FieldOrder on, comma separated
RECURSIVE StringifyFields(_, _, _)
StringifyFields(obj, i, first) ==
    IF i > Len(FieldOrder) THEN <<>>
    ELSE IF FieldOrder[i] \in DOMAIN obj
         THEN (IF first THEN <<>> ELSE <<",">>)
              \o <<FieldOrder[i], ":">>
              \o StringifyValue(FieldOrder[i], obj[FieldOrder[i]])
              \o StringifyFields(obj, i + 1, FALSE)
         ELSE StringifyFields(obj, i + 1, first)

StringifyObject(obj) == <<"{">> \o StringifyFields(obj, 1, TRUE) \o <<"}">>

RECURSIVE StringifyItems(_)
StringifyItems(list) ==
    IF list = <<>> THEN <<>>
    ELSE IF Len(list) = 1 THEN StringifyObject(list[1])
    ELSE StringifyObject(list[1]) \o <<",">> \o StringifyItems(Tail(list))

\* JSON.stringify of an array of objects
JSONstringify(list) == <<"[">> \o StringifyItems(list) \o <<"]">>

\* the characters of a string from token i on, up to its closing quote
RECURSIVE ParseChars(_, _)
ParseChars(t, i) ==
    IF t[i] = Quote THEN [val |-> <<>>, next |-> i + 1]
    ELSE LET r == ParseChars(t, i + 1)
         IN  [val |-> <<t[i]>> \o r.val, next |-> r.next]

ParseValue(t, i, key) ==
    CASE FieldType(key) = "chars"   -> ParseChars(t, i + 1)
      [] FieldType(key) = "number"  ->
            [val |-> DigitsValue(t, i, CountDigits(t, i)),
             next |-> i + CountDigits(t, i)]
      [] FieldType(key) = "boolean" -> [val |-> t[i] = "true", next |-> i + 1]
      [] OTHER                      -> [val |-> t[i + 1], next |-> i + 3]

\* the members of an object from token i (a property name) to its "}"
RECURSIVE ParseFields(_, _)
ParseFields(t, i) ==
    LET key == t[i]
        v   == ParseValue(t, i + 2, key)
    IN  IF t[v.next] = ","
        THEN LET r == ParseFields(t, v.next + 1)
             IN  [val |-> (key :> v.val) @@ r.val, next |-> r.next]
        ELSE [val |-> (key :> v.val), next |-> v.next + 1]

\* the objects of an array from token i (a "{") to the array's "]"
RECURSIVE ParseItems(_, _)
ParseItems(t, i) ==
    LET o == ParseFields(t, i + 1)
    IN  IF t[o.next] = "," THEN <<o.val>> \o ParseItems(t, o.next + 1)
        ELSE <<o.val>>

\* JSON.parse of the text of an array of objects
JSONparse(t) == IF t[2] = "]" THEN <<>> ELSE ParseItems(t, 2)

\* localStorage.getItem gives null for an absent key: the empty token sequence
NoItem == <<>>

\* JSON.parse(localStorage.getItem('zakatPaymentHistory') || '[]')
ReadHistory(item) == JSONparse(IF item = NoItem THEN <<"[", "]">> ELSE item)

\* { ...payment, timestamp: new Date().getTime() }
WithTimestamp(payment, now) ==
    [f \in DOMAIN payment \cup {"timestamp"} |->
        IF f = "timestamp" THEN now ELSE payment[f]]

\* new Date().toISOString() at the instant now
ISOString(now) == "T" \o ToString(now)

(***************************************************************************)
(* Texts the code shows                                                    *)
(***************************************************************************)
InvalidAmountText == "Sila masukkan jumlah pembayaran yang sah."
MissingMethodText == "Sila pilih kaedah pembayaran."
MissingEmailText == "Sila masukkan alamat emel."
RedirectingText == "Mengalihkan ke gateway pembayaran..."
PaymentFailedText == "Pembayaran gagal. Sila cuba lagi."
CreationFailedPrefix == "Pembayaran gagal: "
DefaultCreationMessage == "Payment creation failed"
CreateNetworkError == "Network error when connecting to payment gateway"
StatusNetworkError == "Network error when checking payment status"
VerificationFailedText == "Pengesahan pembayaran gagal. Sila hubungi pihak pentadbir."
VerificationErrorPrefix == "Ralat pengesahan: "
CancelledText == "Pembayaran dibatalkan."
\* message of the TypeError raised by paymentDetails.innerHTML = ... on null
NullDetailsError == "Cannot set properties of null (setting 'innerHTML')"

(***************************************************************************)
(* The page, the gateway and the inputs the model draws from               *)
(***************************************************************************)
Variants == {"securepay", "legacy"}

\* elements a page may lack; paymentForm and paymentAmount are always there
OptionalElements ==
    {"paymentProcessing", "paymentSuccess", "paymentDetails", "paymentMessage"}

\* the complete page, and the pages that lack one optional element
Layouts == {OptionalElements} \cup {OptionalElements \ {e} : e \in OptionalElements}

\* identifiers the gateway assigns to payments
PaymentIds == {"P1", "P2"}

\* queries the first page load may carry
InitialSearches ==
    { <<>>,
      <<Pair("payment_status", "completed"), Pair("payment_id", "P1")>>,
      <<Pair("lang", "ms"), Pair("payment_status", "completed"), Pair("payment_id", "P1")>>,
      <<Pair("payment_status", "completed")>>,
      <<Pair("payment_status", "completed"), Pair("payment_id", "")>>,
      <<Pair("payment_status", "cancelled")>>,
      <<Pair("payment_status", "cancelled"), Pair("payment_id", "P1")>> }

\* the queries a first load of a page that lacks an element may carry
MainSearches ==
    { <<>>,
      <<Pair("payment_status", "completed"), Pair("payment_id", "P1")>>,
      <<Pair("payment_status", "cancelled")>> }

\* values of Math.floor(Math.random() * 1000000) the model draws
RandomNumbers == {7, 8}

\* bodies the gateway may answer POST /v1/payments with
CreateResponses ==
    { [success |-> TRUE,  checkout_url |-> "https://gw/x", message |-> Undefined],
      [success |-> TRUE,  checkout_url |-> Undefined,      message |-> Undefined],
      [success |-> FALSE, checkout_url |-> "https://gw/x", message |-> "declined"],
      [success |-> FALSE, checkout_url |-> Undefined,      message |-> "declined"] }

\* bodies the gateway may answer GET /v1/payments/{id} with
StatusResults(paymentId) ==
    { [success |-> TRUE, status |-> "paid", id |-> paymentId,
       amount |-> <<"1", "5", "0", ".", "0", "0">>, method |-> "card"],
      [success |-> TRUE, status |-> "pending", id |-> paymentId],
      [success |-> FALSE, status |-> "paid", id |-> paymentId] }

Form(amount, method, email, name, phone) ==
    [amount |-> amount, method |-> method, email |-> email,
     name |-> name, phone |-> phone]

ValidForm == Form(<<"1", "5", "0">>, "card", "a@b.com", "Ali", "0123")

\* values of the amount field
AmountInputs ==
    { <<>>, <<"0">>, <<"-", "5">>, <<"-", "0">>, <<"0", ".", "0", "0">>,
      <<"a", "b", "c">>, <<"1", "2", "a">>, <<" ", "5">>,
      <<"1", "5", "0">>, <<"1", "5", "0", ".", "0", "0">>, <<"1", "0", ".", "5">>,
      <<"1", ".", "0", "0", "5">>, <<"8", ".", "3", "4", "5">>,
      <<"0", ".", "1", "2", "5">>, <<"0", ".", "0", "0", "4">>, <<".", "5">> }

\* values of the checked paymentMethod radio (undefined: none is checked)
MethodInputs ==
    {Undefined, "", "fpx", "card", "wallet", "qr", "crypto", "constructor"}

\* values of the customerEmail field (undefined: the page has no such field)
EmailInputs == {Undefined, "", "a@b.com"}

\* the valid form with one field changed, and the forms with several
\* invalid fields
FormInputs ==
    {[ValidForm EXCEPT !.amount = a] : a \in AmountInputs}
    \cup {[ValidForm EXCEPT !.method = m] : m \in MethodInputs}
    \cup {[ValidForm EXCEPT !.email = e] : e \in EmailInputs}
    \cup {[ValidForm EXCEPT !.name = "", !.phone = Undefined]}
    \cup {Form(a, m, e, "", "") :
            a \in {<<>>, <<"0">>, <<"a", "b", "c">>}, m \in {Undefined, "crypto"},
            e \in {"", "a@b.com"}}

\* values the user changes the fields to between submissions
EditInputs ==
    {ValidForm, [ValidForm EXCEPT !.amount = <<>>], [ValidForm EXCEPT !.email = ""]}

(***************************************************************************)
(* State                                                                   *)
(***************************************************************************)
VARIABLES
    variant,      \* which script the page loads
    isTestMode,   \* SecurePayService.isTestMode
    elems,        \* the optional elements the page has
    page,         \* "loading": parsed, before DOMContentLoaded; "ready";
                  \* "checkout": the browser is at the gateway's checkout page
    search,       \* window.location.search as name/value pairs
    form,         \* values of the form's fields
    display,      \* style.display of the form, the indicator and the summary
    message,      \* paymentMessage: [shown, type, text]
    hideTimers,   \* pending 5000 ms timers that hide the message
    simTimers,    \* pending 2000 ms simulation callbacks, each [amount, method]
    doneTimers,   \* pending 1500 ms completion callbacks, each [amount, method]
    requests,     \* payloads of the POSTs whose promise has not settled
    lookups,      \* payment ids of the GETs whose promise has not settled
    checkout,     \* at the checkout page: <<[url, return_url, cancel_url]>>
    storage,      \* localStorage item 'zakatPaymentHistory'
    clock,        \* what Date.now() / new Date() read
    nSubmits,     \* submissions that passed validation so far
    nLoads,       \* page loads so far
    references,   \* reference_id of each payload this document has built
    reconciliation
                  \* how far checkPaymentStatusFromUrl has come for the payment
                  \* the location names: "none", "pending" (lookup sent),
                  \* "verified", "cancelled", "unverified", "error"

vars ==
    <<variant, isTestMode, elems, page, search, form, display, message,
      hideTimers, simTimers, doneTimers, requests, lookups, checkout, storage,
      clock, nSubmits, nLoads, references, reconciliation>>

config == <<variant, isTestMode, elems>>

Has(id) == id \in elems

\* the regions as the page's markup shows them before any script runs
InitialDisplay == [form |-> "block", processing |-> "none", success |-> "none"]

NoMessage == [shown |-> FALSE, type |-> "", text |-> ""]

\* the payment history as read back from storage
History == ReadHistory(storage)

(***************************************************************************)
(* Methods of SecurePayService that change the page                        *)
(***************************************************************************)
\* a processing state that leaves the form as it is
showProcessingKeepingForm(isProcessing) ==
    display' =
        [processing |-> IF Has("paymentProcessing")
                        THEN (IF isProcessing THEN "block" ELSE "none")
                        ELSE display.processing,
         form       |-> display.form,
         success    |-> IF Has("paymentSuccess") THEN "none" ELSE display.success]

showPaymentProcessing(isProcessing) ==
    display' =
        [processing |-> IF Has("paymentProcessing")
                        THEN (IF isProcessing THEN "block" ELSE "none")
                        ELSE display.processing,
         form       |-> IF isProcessing THEN "none" ELSE "block",
         success    |-> IF Has("paymentSuccess") THEN "none" ELSE display.success]

\* the message is shown and a 5000 ms timer is started that hides it
showPaymentMessage(type, text) ==
    IF Has("paymentMessage")
    THEN /\ message' = [shown |-> TRUE, type |-> type, text |-> text]
         /\ hideTimers' = hideTimers + 1
    ELSE UNCHANGED <<message, hideTimers>>

\* a save that writes the new record alone, dropping what was stored
saveOverwritingHistory(payment, now) ==
    storage' = JSONstringify(<<WithTimestamp(payment, now)>>)

savePaymentToHistory(payment, now) ==
    storage' = JSONstringify(Append(ReadHistory(storage), WithTimestamp(payment, now)))

\* paymentDetails.innerHTML = ... raises a TypeError when the summary region is
\* there and its details element is not; the history is then not written
CompleteThrows == Has("paymentSuccess") /\ ~Has("paymentDetails")

\* a completion that shows the summary and stores nothing
showSummaryWithoutSaving(paymentResult, now) ==
    /\ display' =
        [processing |-> IF Has("paymentProcessing") THEN "none" ELSE display.processing,
         form       |-> "none",
         success    |-> IF Has("paymentSuccess") THEN "block" ELSE display.success]
    /\ UNCHANGED storage

\* a completion that shows the summary and leaves the form as it is
showSummaryKeepingForm(paymentResult, now) ==
    /\ display' =
        [processing |-> IF Has("paymentProcessing") THEN "none" ELSE display.processing,
         form       |-> display.form,
         success    |-> IF Has("paymentSuccess") THEN "block" ELSE display.success]
    /\ IF Has("paymentSuccess") /\ Has("paymentDetails")
       THEN savePaymentToHistory(paymentResult, now)
       ELSE UNCHANGED storage

showPaymentComplete(paymentResult, now) ==
    /\ display' =
        [processing |-> IF Has("paymentProcessing") THEN "none" ELSE display.processing,
         form       |-> "none",
         success    |-> IF Has("paymentSuccess") THEN "block" ELSE display.success]
    /\ IF Has("paymentSuccess") /\ Has("paymentDetails")
       THEN savePaymentToHistory(paymentResult, now)
       ELSE UNCHANGED storage

\* a document goes away: its timers and promise callbacks never run
Unload ==
    /\ display' = InitialDisplay
    /\ message' = NoMessage
    /\ hideTimers' = 0
    /\ simTimers' = <<>>
    /\ doneTimers' = <<>>
    /\ requests' = <<>>
    /\ lookups' = <<>>
    /\ references' = <<>>

RemoveAt(seq, i) == SubSeq(seq, 1, i - 1) \o SubSeq(seq, i + 1, Len(seq))

(***************************************************************************)
(* Page load                                                               *)
(***************************************************************************)
\* a check that looks up every payment id it finds, whatever the status marker
checkStatusOfAnyPaymentId ==
    LET paymentStatus == SearchGet(search, "payment_status")
        paymentId     == SearchGet(search, "payment_id")
    IN  IF ~IsFalsy(paymentId)
        THEN /\ lookups' = Append(lookups, paymentId)
             /\ reconciliation' = "pending"
             /\ UNCHANGED <<search, message, hideTimers>>
        ELSE IF paymentStatus = "cancelled"
        THEN /\ showPaymentMessage("info", CancelledText)
             /\ search' = SearchDelete(search, "payment_status")
             /\ reconciliation' = "cancelled"
             /\ UNCHANGED lookups
        ELSE UNCHANGED <<search, message, hideTimers, lookups, reconciliation>>

\* a check that looks a completed payment up without asking for its id
checkStatusWithoutPaymentId ==
    LET paymentStatus == SearchGet(search, "payment_status")
        paymentId     == SearchGet(search, "payment_id")
    IN  IF paymentStatus = "completed"
        THEN /\ lookups' = Append(lookups, paymentId)
             /\ reconciliation' = "pending"
             /\ UNCHANGED <<search, message, hideTimers>>
        ELSE IF paymentStatus = "cancelled"
        THEN /\ showPaymentMessage("info", CancelledText)
             /\ search' = SearchDelete(search, "payment_status")
             /\ reconciliation' = "cancelled"
             /\ UNCHANGED lookups
        ELSE UNCHANGED <<search, message, hideTimers, lookups, reconciliation>>

checkPaymentStatusFromUrl ==
    LET paymentStatus == SearchGet(search, "payment_status")
        paymentId     == SearchGet(search, "payment_id")
    IN  IF paymentStatus = "completed" /\ ~IsFalsy(paymentId)
        THEN /\ lookups' = Append(lookups, paymentId)
             /\ reconciliation' = "pending"
             /\ UNCHANGED <<search, message, hideTimers>>
        ELSE IF paymentStatus = "cancelled"
        THEN /\ showPaymentMessage("info", CancelledText)
             /\ search' = SearchDelete(search, "payment_status")
             /\ reconciliation' = "cancelled"
             /\ UNCHANGED lookups
        ELSE UNCHANGED <<search, message, hideTimers, lookups, reconciliation>>

\* a listener that adds the submit listener and never checks the location
DOMContentLoadedWithoutCheck ==
    /\ page = "loading"
    /\ page' = "ready"
    /\ UNCHANGED <<config, search, message, hideTimers, lookups, reconciliation,
                   form, display, simTimers, doneTimers, requests, checkout,
                   storage, clock, nSubmits, nLoads, references>>

\* the DOMContentLoaded listener: the service is constructed, the return
\* parameters are checked (securepay only) and the submit listener is added
DOMContentLoaded ==
    /\ page = "loading"
    /\ page' = "ready"
    /\ IF variant = "securepay"
       THEN checkPaymentStatusFromUrl
       ELSE UNCHANGED <<search, message, hideTimers, lookups, reconciliation>>
    /\ UNCHANGED <<config, form, display, simTimers, doneTimers, requests,
                   checkout, storage, clock, nSubmits, nLoads, references>>

\* the user refreshes the page
Reload ==
    /\ page = "ready"
    /\ nLoads < MaxLoads
    /\ page' = "loading"
    /\ nLoads' = nLoads + 1
    /\ clock' = clock + 1
    /\ Unload
    /\ UNCHANGED <<config, reconciliation, search, form, checkout, storage, nSubmits>>

(***************************************************************************)
(* Submission                                                              *)
(***************************************************************************)
\* the user changes the values of the fields of the form that is shown
EditForm ==
    /\ page = "ready"
    /\ display.form = "block"
    /\ form' \in EditInputs \ {form}
    /\ UNCHANGED <<config, reconciliation, page, search, display, message,
                   hideTimers, simTimers, doneTimers, requests, lookups,
                   checkout, storage, clock, nSubmits, nLoads, references>>

\* !paymentAmount || parseFloat(paymentAmount) <= 0
AmountRejected(paymentAmount) ==
    IsFalsyString(paymentAmount) \/ LessOrEqualZero(parseFloat(paymentAmount))

\* a check that only notices that no radio is checked
MethodRejectedWhenUndefined(paymentMethod) == paymentMethod = Undefined

\* !paymentMethod
MethodRejected(paymentMethod) == IsFalsy(paymentMethod)

\* a check that only notices that the page has no email field
EmailRejectedWhenUndefined(customerEmail) ==
    variant = "securepay" /\ customerEmail = Undefined

\* !customerEmail; the legacy handler reads no email
EmailRejected(customerEmail) == variant = "securepay" /\ IsFalsy(customerEmail)

\* the text of the validation error of the form's values, "" when they pass
ValidationError(f) ==
    IF AmountRejected(f.amount) THEN InvalidAmountText
    ELSE IF MethodRejected(f.method) THEN MissingMethodText
    ELSE IF EmailRejected(f.email) THEN MissingEmailText
    ELSE ""

\* the request body of POST /v1/payments
Payload(f) ==
    [amount       |-> toFixed2(parseFloat(f.amount)),
     currency     |-> "MYR",
     reference_id |-> "ZAKAT-" \o ToString(clock),
     description  |-> "Pembayaran Zakat",
     customer     |-> [name  |-> IF IsFalsy(f.name) THEN "Pembayar Zakat" ELSE f.name,
                       email |-> f.email,
                       phone |-> IF IsFalsy(f.phone) THEN "" ELSE f.phone],
     payment      |-> [method |-> mapPaymentMethod(f.method)],
     redirect     |-> [return_url |-> HrefPlusStatus(search, "completed"),
                       cancel_url |-> HrefPlusStatus(search, "cancelled")],
     metadata     |-> [source |-> "ZakatNOW Calculator"]]

\* what the simulation callbacks capture: paymentAmount and paymentMethod
Closure(f) == [amount |-> f.amount, method |-> f.method]

\* a service whose test flag was never switched off
SimulatedAlways == TRUE

\* if (this.isTestMode): the legacy handler always simulates
Simulated == variant = "legacy" \/ isTestMode

\* a validation branch that shows its error and goes on, its return missing
RejectWithoutReturn(text) ==
    /\ Has("paymentMessage") => hideTimers < MaxHideTimers
    /\ showPaymentMessage("error", text)
    /\ showPaymentProcessing(TRUE)
    /\ simTimers' = Append(simTimers, Closure(form))
    /\ UNCHANGED <<requests, nSubmits, references>>

\* a validation branch: the error is shown and the handler returns
RejectSubmission(text) ==
    /\ Has("paymentMessage") => hideTimers < MaxHideTimers
    /\ showPaymentMessage("error", text)
    /\ UNCHANGED <<display, simTimers, requests, nSubmits, references>>

\* the submit listener; the form receives submit events only while it is shown
handlePaymentSubmit ==
    /\ page = "ready"
    /\ display.form = "block"
    /\ IF ValidationError(form) # ""
       THEN RejectSubmission(ValidationError(form))
       ELSE /\ nSubmits < MaxSubmits
            /\ nSubmits' = nSubmits + 1
            /\ showPaymentProcessing(TRUE)
            /\ IF Simulated
               THEN /\ simTimers' = Append(simTimers, Closure(form))
                    /\ UNCHANGED requests
               ELSE /\ requests' = Append(requests, Payload(form))
                    /\ UNCHANGED simTimers
            /\ references' = IF variant = "securepay"
                             THEN Append(references, Payload(form).reference_id)
                             ELSE references
            /\ UNCHANGED <<message, hideTimers>>
    /\ UNCHANGED <<config, reconciliation, page, search, form, doneTimers,
                   lookups, checkout, storage, clock, nLoads>>

\* the result object the simulated success passes to showPaymentComplete
SimulatedResult(c, n, now) ==
    IF variant = "securepay"
    THEN [status |-> "success", transaction_id |-> "SPM" \o ToString(n),
          amount |-> c.amount, method |-> c.method, date |-> ISOString(now)]
    ELSE [status |-> "success", transactionId |-> "TRX" \o ToString(n),
          amount |-> c.amount, method |-> c.method, date |-> ISOString(now)]

\* the 2000 ms callback of simulated submission i; success is
\* Math.random() > 0.2 and n the random number of the transaction id
SimulationCallback(i, success, n) ==
    /\ page = "ready"
    /\ simTimers' = RemoveAt(simTimers, i)
    /\ clock' = clock + 1
    /\ IF ~success
       THEN /\ showPaymentMessage("error", PaymentFailedText)
            /\ showPaymentProcessing(FALSE)
            /\ UNCHANGED <<doneTimers, storage>>
       ELSE IF variant = "securepay"
       THEN /\ showPaymentMessage("info", RedirectingText)
            /\ doneTimers' = Append(doneTimers, simTimers[i])
            /\ UNCHANGED <<display, storage>>
       ELSE /\ showPaymentComplete(SimulatedResult(simTimers[i], n, clock'), clock')
            /\ UNCHANGED <<message, hideTimers, doneTimers>>
    /\ UNCHANGED <<config, reconciliation, page, search, form, requests, lookups,
                   checkout, nSubmits, nLoads, references>>

SimulationTimeout ==
    \E i \in DOMAIN simTimers, success \in BOOLEAN, n \in RandomNumbers :
        SimulationCallback(i, success, n)

\* the 1500 ms callback that follows simulated success i (securepay)
CompletionCallback(i, n) ==
    /\ page = "ready"
    /\ doneTimers' = RemoveAt(doneTimers, i)
    /\ clock' = clock + 1
    /\ showPaymentComplete(SimulatedResult(doneTimers[i], n, clock'), clock')
    /\ UNCHANGED <<config, reconciliation, page, search, form, message, hideTimers,
                   simTimers, requests, lookups, checkout, nSubmits, nLoads,
                   references>>

CompletionTimeout ==
    \E i \in DOMAIN doneTimers, n \in RandomNumbers : CompletionCallback(i, n)

\* the 5000 ms callback of showPaymentMessage
HideMessageTimeout ==
    /\ page = "ready"
    /\ hideTimers > 0
    /\ hideTimers' = hideTimers - 1
    /\ message' = [message EXCEPT !.shown = FALSE]
    /\ UNCHANGED <<config, reconciliation, page, search, form, display, simTimers,
                   doneTimers, requests, lookups, checkout, storage, clock,
                   nSubmits, nLoads, references>>

(***************************************************************************)
(* Gateway responses                                                       *)
(***************************************************************************)
\* a catch handler that reports the error and leaves the regions as they are
SubmissionFailedMessageOnly(errorMessage) ==
    /\ showPaymentMessage("error", CreationFailedPrefix \o errorMessage)
    /\ UNCHANGED <<display, page, checkout, simTimers, doneTimers, lookups,
                   references>>

\* the catch handler of a live submission
SubmissionFailed(errorMessage) ==
    /\ showPaymentMessage("error", CreationFailedPrefix \o errorMessage)
    /\ showPaymentProcessing(FALSE)
    /\ UNCHANGED <<page, checkout, simTimers, doneTimers, lookups, references>>

\* window.location.href = response.checkout_url
NavigateToCheckout(payload, response) ==
    /\ page' = "checkout"
    /\ checkout' = <<[url        |-> response.checkout_url,
                      return_url |-> payload.redirect.return_url,
                      cancel_url |-> payload.redirect.cancel_url]>>
    /\ Unload

\* a transport failure of fetch, or a body that is not JSON
TransportFailure == [error |-> "Failed to fetch"]

\* response.success && response.checkout_url
HasCheckout(response) ==
    response # TransportFailure /\ response.success /\ ~IsFalsy(response.checkout_url)

\* an Error that never carries what the gateway said
CreationErrorDefaultOnly(response) == DefaultCreationMessage

\* the message of the Error the catch handler of a live submission receives
CreationError(response) ==
    IF response = TransportFailure THEN CreateNetworkError
    ELSE IF IsFalsy(response.message) THEN DefaultCreationMessage
    ELSE response.message

\* the promise of createPaymentSession for request i settles: with a response
\* body, or with the error its catch handler throws on a transport failure;
\* nothing makes a settling promise wait: it may settle within the millisecond
\* the request was sent in, so the clock is left as it is
SessionSettled(i, response) ==
    /\ page = "ready"
    /\ IF HasCheckout(response)
       THEN NavigateToCheckout(requests[i], response)
       ELSE /\ SubmissionFailed(CreationError(response))
            /\ requests' = RemoveAt(requests, i)
    /\ UNCHANGED <<config, reconciliation, search, form, storage, clock, nSubmits,
                   nLoads>>

PaymentSessionSettled ==
    \E i \in DOMAIN requests, response \in CreateResponses \cup {TransportFailure} :
        SessionSettled(i, response)

\* a clean-up that forgets the payment id
StripMarkersStatusOnly(s) == SearchDelete(s, "payment_status")

\* window.history.replaceState without payment_status and payment_id
StripMarkers(s) == SearchDelete(SearchDelete(s, "payment_status"), "payment_id")

\* a check that trusts the success flag alone
ReportsSuccess(result) == result # TransportFailure /\ result.success

\* a check that takes every answer of the gateway for a confirmation
ReportsAnswered(result) == result # TransportFailure

\* result.success && result.status === 'paid'
ReportsPaid(result) ==
    result # TransportFailure /\ result.success /\ result.status = "paid"

\* a handler that cleans the location whatever the lookup answered
StatusSettledCleaning(i, result) ==
    /\ page = "ready"
    /\ lookups' = RemoveAt(lookups, i)
    /\ search' = StripMarkers(search)
    /\ IF result = TransportFailure
       THEN /\ showPaymentMessage("error",
                                  VerificationErrorPrefix \o StatusNetworkError)
            /\ reconciliation' = "error"
            /\ UNCHANGED <<display, storage>>
       ELSE IF ReportsPaid(result)
       THEN /\ showPaymentComplete(result, clock)
            /\ IF CompleteThrows
               THEN /\ showPaymentMessage("error",
                                          VerificationErrorPrefix \o NullDetailsError)
                    /\ reconciliation' = "error"
               ELSE /\ reconciliation' = "verified"
                    /\ UNCHANGED <<message, hideTimers>>
       ELSE /\ showPaymentMessage("error", VerificationFailedText)
            /\ reconciliation' = "unverified"
            /\ UNCHANGED <<display, storage>>
    /\ UNCHANGED <<config, page, form, simTimers, doneTimers, requests,
                   checkout, clock, nSubmits, nLoads, references>>

\* the promise of checkPaymentStatus for lookup i settles, in
\* checkPaymentStatusFromUrl: with a body, or with the error of its catch handler
StatusSettled(i, result) ==
    /\ page = "ready"
    /\ lookups' = RemoveAt(lookups, i)
    /\ IF result = TransportFailure
       THEN /\ showPaymentMessage("error",
                                  VerificationErrorPrefix \o StatusNetworkError)
            /\ reconciliation' = "error"
            /\ UNCHANGED <<search, display, storage>>
       ELSE IF ReportsPaid(result)
       THEN /\ showPaymentComplete(result, clock)
            /\ IF CompleteThrows
               THEN /\ showPaymentMessage("error",
                                          VerificationErrorPrefix \o NullDetailsError)
                    /\ reconciliation' = "error"
                    /\ UNCHANGED search
               ELSE /\ search' = StripMarkers(search)
                    /\ reconciliation' = "verified"
                    /\ UNCHANGED <<message, hideTimers>>
       ELSE /\ showPaymentMessage("error", VerificationFailedText)
            /\ reconciliation' = "unverified"
            /\ UNCHANGED <<search, display, storage>>
    /\ UNCHANGED <<config, page, form, simTimers, doneTimers, requests,
                   checkout, clock, nSubmits, nLoads, references>>

PaymentStatusSettled ==
    \E i \in DOMAIN lookups :
        \E result \in StatusResults(lookups[i]) \cup {TransportFailure} :
            StatusSettled(i, result)

\* the gateway sends the browser back: to return_url with the payment's id
\* added, or to cancel_url
GatewayReturn ==
    /\ page = "checkout"
    /\ nLoads < MaxLoads
    /\ \/ \E id \in PaymentIds :
            search' = Append(checkout[1].return_url, Pair("payment_id", id))
       \/ search' = checkout[1].cancel_url
    /\ page' = "loading"
    /\ checkout' = <<>>
    /\ reconciliation' = "none"
    /\ nLoads' = nLoads + 1
    /\ clock' = clock + 1
    /\ UNCHANGED <<config, form, display, message, hideTimers, simTimers,
                   doneTimers, requests, lookups, storage, nSubmits, references>>

(***************************************************************************)
(* Specification                                                           *)
(***************************************************************************)
\* the first load: the complete page at a plain address with any of the form
\* values, or the complete page at any address, or a page that lacks an
\* element at one of the main addresses, with the values the user also edits to
Init ==
    /\ variant \in Variants
    /\ isTestMode \in (IF variant = "legacy" THEN {TRUE} ELSE BOOLEAN)
    /\ \/ /\ elems = OptionalElements
          /\ search = <<>>
          /\ form \in FormInputs
       \/ /\ elems = OptionalElements
          /\ search \in (IF variant = "legacy" THEN {<<>>} ELSE InitialSearches)
          /\ form \in EditInputs
       \/ /\ elems \in Layouts
          /\ search \in (IF variant = "legacy" THEN {<<>>} ELSE MainSearches)
          /\ form \in EditInputs
    /\ page = "loading"
    /\ display = InitialDisplay
    /\ message = NoMessage
    /\ hideTimers = 0
    /\ simTimers = <<>>
    /\ doneTimers = <<>>
    /\ requests = <<>>
    /\ lookups = <<>>
    /\ checkout = <<>>
    /\ storage = NoItem
    /\ clock = 0
    /\ nSubmits = 0
    /\ nLoads = 1
    /\ references = <<>>
    /\ reconciliation = "none"

Next ==
    \/ DOMContentLoaded
    \/ Reload
    \/ EditForm
    \/ handlePaymentSubmit
    \/ SimulationTimeout
    \/ CompletionTimeout
    \/ HideMessageTimeout
    \/ PaymentSessionSettled
    \/ PaymentStatusSettled
    \/ GatewayReturn

Spec == Init /\ [][Next]_vars

(***************************************************************************)
(* Properties                                                              *)
(***************************************************************************)
\* the page has the success summary and the details element inside it, the
\* regions the flow is specified to depend on
SummaryPresent == Has("paymentSuccess") /\ Has("paymentDetails")

\* list is old with exactly one more object at its end
OneAppended(old, list) ==
    Len(list) = Len(old) + 1 /\ SubSeq(list, 1, Len(old)) = old

NoMarkers(s) ==
    SearchGet(s, "payment_status") = Undefined /\ SearchGet(s, "payment_id") = Undefined

\* C1: on a page with the success summary, a page load whose query has
\* payment_status=completed and a non-empty payment_id starts one status lookup
\* for that id, and when that lookup reports paid (success true, status 'paid')
\* exactly one record is appended to the history and neither payment_status
\* nor payment_id is left in the visible location.
C1_PaidReconciliation ==
    [][/\ ( /\ DOMContentLoaded
            /\ variant = "securepay"
            /\ SearchGet(search, "payment_status") = "completed"
            /\ ~IsFalsy(SearchGet(search, "payment_id")) )
          => lookups' = <<SearchGet(search, "payment_id")>>
       /\ \A i \in DOMAIN lookups : \A result \in StatusResults(lookups[i]) :
            (StatusSettled(i, result) /\ ReportsPaid(result) /\ SummaryPresent)
            => /\ OneAppended(History, ReadHistory(storage'))
               /\ ReadHistory(storage')[Len(History) + 1].id = lookups[i]
               /\ NoMarkers(search')
      ]_vars

\* C1 witness: in the first page load a lookup has reported paid: the gateway's
\* result is the one record of the history and the markers are gone
C1_Witness ==
    /\ page = "ready" /\ nLoads = 1 /\ SummaryPresent
    /\ Len(History) = 1
    /\ "success" \in DOMAIN History[1] /\ History[1].status = "paid"
    /\ History[1].id = "P1"
    /\ NoMarkers(search)
    /\ display.success = "block"

\* C2: a terminal transition of reconciliation (verified success, cancelled)
\* happens without a reload and leaves no payment_status in the visible
\* location, and the DOMContentLoaded of a later refresh is then a no-op: no
\* status lookup is sent, the history and the location stay as they are and
\* no message is shown.
C2_RefreshIsNoOp ==
    [][/\ (reconciliation' \in {"verified", "cancelled"}
             /\ reconciliation' # reconciliation)
          => /\ page' = "ready" /\ nLoads' = nLoads
             /\ SearchGet(search', "payment_status") = Undefined
       /\ (DOMContentLoaded /\ reconciliation \in {"verified", "cancelled"})
          => /\ lookups' = <<>>
             /\ storage' = storage
             /\ search' = search
             /\ message' = NoMessage /\ hideTimers' = 0
      ]_vars

\* C2 witness: a payment was verified in the first load (its record carries
\* the first load's time), the page was then refreshed and has finished loading
C2_Witness ==
    /\ page = "ready" /\ nLoads = 2 /\ reconciliation = "verified"
    /\ Len(History) = 1 /\ History[1].timestamp = 0
    /\ lookups = <<>> /\ ~message.shown

IsPrefix(old, list) ==
    Len(old) <= Len(list) /\ SubSeq(list, 1, Len(old)) = old

\* C3: the payment history is append-only: in every step the log read from
\* storage before the step is a prefix of the log read after it, and a step
\* that completes a payment (simulated success, lookup reporting paid) leaves a
\* stored text that reads back as the old log followed by exactly the record
\* that was appended; an absent storage key reads as the empty log.
C3_AppendOnly ==
    [][/\ storage = NoItem => History = <<>>
       /\ storage' # storage =>
          \A old \in {History} : \A new \in {ReadHistory(storage')} :
              /\ IsPrefix(old, new)
              /\ \A i \in DOMAIN doneTimers : \A n \in RandomNumbers :
                   CompletionCallback(i, n)
                   => new = Append(old, WithTimestamp(
                                SimulatedResult(doneTimers[i], n, clock'), clock'))
              /\ \A i \in DOMAIN simTimers : \A n \in RandomNumbers :
                   SimulationCallback(i, TRUE, n)
                   => new = Append(old, WithTimestamp(
                                SimulatedResult(simTimers[i], n, clock'), clock'))
              /\ \A i \in DOMAIN lookups : \A result \in StatusResults(lookups[i]) :
                   StatusSettled(i, result)
                   => new = Append(old, WithTimestamp(result, clock))
      ]_vars

\* C3 witness: after a refresh the stored log holds a reconciled payment
\* followed by a simulated one
C3_Witness ==
    /\ nLoads = 2 /\ page = "ready"
    /\ Len(History) >= 2
    /\ "success" \in DOMAIN History[1]
    /\ "transaction_id" \in DOMAIN History[2]
    /\ History[1].timestamp < History[2].timestamp

\* submissions that passed validation and have not reached an outcome
InFlight == Len(simTimers) + Len(doneTimers) + Len(requests)

\* C4: at most one submission of the form is in flight at any time, and
\* while one is in flight the form is hidden, whatever the order of submit
\* events, timer callbacks and gateway responses, a pending status lookup
\* of the reconciliation included.
C4_OneSubmissionInFlight ==
    /\ InFlight <= 1
    /\ InFlight = 1 => display.form = "none"

\* C4 witness: a submission is in flight, the form hidden, while the status
\* lookup of the reconciliation is still pending
C4_Witness ==
    /\ InFlight = 1 /\ lookups # <<>>
    /\ display.form = "none" /\ nSubmits = 1

\* the whole string, leading white space aside, is a decimal literal
IsNumeric(s) ==
    LET a  == SkipWhiteSpace(s, 1)
        b  == IF a <= Len(s) /\ s[a] \in {"+", "-"} THEN a + 1 ELSE a
        ni == CountDigits(s, b)
        dt == b + ni <= Len(s) /\ s[b + ni] = "."
        nf == IF dt THEN CountDigits(s, b + ni + 1) ELSE 0
    IN  ni + nf > 0 /\ b + ni + (IF dt THEN 1 + nf ELSE 0) = Len(s) + 1

\* an amount that is absent, not numeric, or at most 0
InvalidAmount(s) ==
    s = <<>> \/ ~IsNumeric(s) \/ LessOrEqualZero(parseFloat(s))

\* the step is a submission that halts with the given validation error
RejectedWith(text) ==
    /\ nSubmits' = nSubmits
    /\ UNCHANGED <<display, simTimers, requests>>
    /\ Has("paymentMessage")
       => message' = [shown |-> TRUE, type |-> "error", text |-> text]

\* the step is a submission that passes validation
Accepted ==
    /\ nSubmits' = nSubmits + 1
    /\ Len(simTimers') + Len(requests') = Len(simTimers) + Len(requests) + 1

\* C5: a submission whose amount is absent, non-numeric, or less than or equal
\* to 0 fails with the invalid-amount error.
C5_InvalidAmountRejected ==
    [][(handlePaymentSubmit /\ InvalidAmount(form.amount))
       => RejectedWith(InvalidAmountText)]_vars

\* C6 as claimed: a submission fails with the missing-email error whenever the
\* customer email is empty, whatever the amount and the method.
C6_EmptyEmailAlwaysRejected ==
    [][(handlePaymentSubmit /\ IsFalsy(form.email))
       => RejectedWith(MissingEmailText)]_vars

\* C6 amended: in scripts/payment.js a submission whose amount and method pass
\* validation fails with the missing-email error whenever the customer email is
\* empty or absent; with an amount or a method that fails validation the
\* earlier error is reported instead, and the earlier handler (part_000), which
\* reads no email, accepts the submission.
C6_MissingEmail ==
    [][(handlePaymentSubmit /\ IsFalsy(form.email))
       => IF AmountRejected(form.amount) THEN RejectedWith(InvalidAmountText)
          ELSE IF MethodRejected(form.method) THEN RejectedWith(MissingMethodText)
          ELSE IF variant = "securepay" THEN RejectedWith(MissingEmailText)
          ELSE Accepted]_vars

\* C6 witness: the securepay page shows the missing-email error for a form
\* whose amount and method are valid and whose email is empty
C6_Witness ==
    /\ variant = "securepay" /\ page = "ready"
    /\ form.email = "" /\ ~AmountRejected(form.amount) /\ ~MethodRejected(form.method)
    /\ message = [shown |-> TRUE, type |-> "error", text |-> MissingEmailText]
    /\ nSubmits = 0 /\ display.form = "block"

EnumeratedMethods == {"fpx", "card", "wallet", "qr"}

\* C7 as claimed: a submission fails with the missing-method error whenever
\* the payment method is not one of fpx, card, wallet, qr.
C7_UnknownMethodRejected ==
    [][(handlePaymentSubmit /\ form.method \notin EnumeratedMethods)
       => RejectedWith(MissingMethodText)]_vars

\* C7 amended: a submission whose amount passes validation fails with the
\* missing-method error exactly when no method is selected (the value is
\* undefined or empty); a non-empty code, in the enumerated set or not, passes
\* the method check.
C7_MissingMethod ==
    [][(handlePaymentSubmit /\ ~AmountRejected(form.amount))
       => IF IsFalsy(form.method) THEN RejectedWith(MissingMethodText)
          ELSE Accepted \/ (IsFalsy(form.email) /\ RejectedWith(MissingEmailText))]_vars

\* C7 witness: the missing-method error is shown for a form with a valid
\* amount and an empty method value
C7_Witness ==
    /\ page = "ready" /\ form.method = "" /\ ~AmountRejected(form.amount)
    /\ message = [shown |-> TRUE, type |-> "error", text |-> MissingMethodText]
    /\ nSubmits = 0 /\ display.form = "block"

\* the mapping the spec gives: the fixed table, "fpx" for any other code
SpecifiedMethod(m) ==
    CASE m = "fpx"    -> "fpx"
      [] m = "card"   -> "card"
      [] m = "wallet" -> "boost"
      [] m = "qr"     -> "duitnow_qr"
      [] OTHER        -> "fpx"

\* C8: for a method code outside fpx, card, wallet, qr the intent is still
\* built and its gateway-facing method is "fpx"; for the four codes it is
\* fpx, card, boost and duitnow_qr.
C8_MethodMapping ==
    [][(/\ handlePaymentSubmit
        /\ variant = "securepay" /\ ~isTestMode
        /\ ~IsFalsy(form.method)
        /\ ~AmountRejected(form.amount) /\ ~IsFalsy(form.email))
       => /\ Len(requests') = Len(requests) + 1
          /\ requests'[Len(requests')].payment.method = SpecifiedMethod(form.method)
      ]_vars

\* C9: a submission that fails client-side validation halts with its error
\* message (shown where the page has the message element) and changes nothing
\* else: no gateway request is sent, no simulation timer is started, the
\* processing indicator is not shown, the form stays shown and the history
\* is not written.
C9_RejectionChangesNothingElse ==
    [][(handlePaymentSubmit /\ ValidationError(form) # "")
       => /\ Has("paymentMessage")
             => message' = [shown |-> TRUE, type |-> "error",
                            text |-> ValidationError(form)]
          /\ ValidationError(form) \in
                {InvalidAmountText, MissingMethodText, MissingEmailText}
          /\ display'.form = "block" /\ display'.processing = "none"
          /\ UNCHANGED <<display, requests, simTimers, doneTimers, lookups,
                         storage, search, page, checkout, nSubmits, form>>
      ]_vars

\* C9 witness: a validation error is shown on a page that already has a
\* payment in its history, the form still shown and nothing in flight
C9_Witness ==
    /\ page = "ready" /\ display.form = "block" /\ InFlight = 0
    /\ ValidationError(form) # ""
    /\ message = [shown |-> TRUE, type |-> "error", text |-> ValidationError(form)]
    /\ Len(History) = 1 /\ display.processing = "none"

LiveMode == variant = "securepay" /\ ~isTestMode

\* C10: in live mode neither a submission nor the gateway's answer to it
\* writes the history; an answer with success and a checkout URL navigates the
\* browser to that URL; the history is written only when a status lookup of
\* the redirect-return reconciliation reports paid.
C10_LiveHistoryOnlyAfterVerification ==
    [][LiveMode =>
        /\ handlePaymentSubmit => storage' = storage
        /\ \A i \in DOMAIN requests :
             \A response \in CreateResponses \cup {TransportFailure} :
                SessionSettled(i, response)
                => /\ storage' = storage
                   /\ HasCheckout(response)
                      => /\ page' = "checkout"
                         /\ checkout'[1].url = response.checkout_url
                   /\ ~HasCheckout(response) => page' = "ready"
        /\ storage' # storage
           => \E i \in DOMAIN lookups : \E result \in StatusResults(lookups[i]) :
                StatusSettled(i, result) /\ ReportsPaid(result)
      ]_vars

\* C10 witness: a live submission went to the checkout page and came back, and
\* the returned payment was verified: its record is the only one
C10_Witness ==
    /\ LiveMode /\ nSubmits = 1 /\ nLoads = 2 /\ page = "ready"
    /\ reconciliation = "verified"
    /\ Len(History) = 1 /\ History[1].status = "paid"

\* what the lookup answers is not a confirmation of the payment
NotConfirmed(result) ==
    result = TransportFailure \/ ~result.success \/ result.status # "paid"

\* the text checkPaymentStatusFromUrl shows for a lookup that confirms nothing
UnconfirmedText(result) ==
    IF result = TransportFailure
    THEN VerificationErrorPrefix \o StatusNetworkError
    ELSE VerificationFailedText

\* C11: a status lookup is pending only for a location with
\* payment_status=completed and a payment id; when it answers without
\* reporting paid the verification-failure message is shown as an error, and
\* when its transport fails the verification error naming the network failure
\* is shown (where the page has the message element); in both cases the
\* history is not written and the display regions stay as they are.
C11_UnconfirmedLookup ==
    [][/\ lookups # <<>>
          => /\ SearchGet(search, "payment_status") = "completed"
             /\ lookups = <<SearchGet(search, "payment_id")>>
       /\ \A i \in DOMAIN lookups :
            \A result \in StatusResults(lookups[i]) \cup {TransportFailure} :
                (StatusSettled(i, result) /\ NotConfirmed(result))
                => /\ storage' = storage
                   /\ display' = display
                   /\ Has("paymentMessage")
                      => message' = [shown |-> TRUE, type |-> "error",
                                     text |-> UnconfirmedText(result)]
      ]_vars

\* C11 witness: the gateway sent the browser back with a payment id, the
\* lookup did not report paid: the failure message is shown, the log is empty
C11_Witness ==
    /\ nLoads = 2 /\ nSubmits = 1 /\ page = "ready"
    /\ reconciliation = "unverified" /\ lookups = <<>>
    /\ message = [shown |-> TRUE, type |-> "error", text |-> VerificationFailedText]
    /\ storage = NoItem

\* C12: a page load whose location has payment_status=cancelled writes no
\* history record and sends no status lookup, shows the cancellation text as
\* an informational message (where the page has the message element) and
\* leaves a visible location without payment_status, its other parameters kept.
C12_CancelledReconciliation ==
    [][(/\ DOMContentLoaded
        /\ variant = "securepay"
        /\ SearchGet(search, "payment_status") = "cancelled")
       => /\ storage' = storage
          /\ lookups' = <<>>
          /\ Has("paymentMessage")
             => message' = [shown |-> TRUE, type |-> "info", text |-> CancelledText]
          /\ SearchGet(search', "payment_status") = Undefined
          /\ \A name \in {"payment_id", "lang"} :
                SearchGet(search', name) = SearchGet(search, name)
          /\ page' = "ready" /\ display' = display
      ]_vars

\* C12 witness: a live submission was cancelled at the gateway's checkout
\* page: back on the page the cancellation is shown, the marker is gone and
\* the log is empty
C12_Witness ==
    /\ nLoads = 2 /\ nSubmits = 1 /\ page = "ready"
    /\ reconciliation = "cancelled"
    /\ message = [shown |-> TRUE, type |-> "info", text |-> CancelledText]
    /\ search = <<>> /\ storage = NoItem /\ lookups = <<>>

\* the form can take a new submission: it is shown on the loaded page, the
\* processing indicator is hidden and no submission is in flight
FormReenabled ==
    /\ page = "ready"
    /\ display.form = "block" /\ display.processing = "none"
    /\ InFlight = 0

\* C13: each terminal error of a submission (the simulated failure, a gateway
\* answer without success and checkout URL, a transport failure) shows its
\* error and leaves the form shown, the processing indicator hidden and
\* nothing in flight; and the processing indicator is shown only while a
\* submission is in flight.
C13_ErrorReenablesForm ==
    [][/\ \A i \in DOMAIN simTimers : \A n \in RandomNumbers :
            SimulationCallback(i, FALSE, n)
            => /\ FormReenabled'
               /\ Has("paymentMessage")
                  => message' = [shown |-> TRUE, type |-> "error",
                                 text |-> PaymentFailedText]
       /\ \A i \in DOMAIN requests :
            \A response \in CreateResponses \cup {TransportFailure} :
                (SessionSettled(i, response) /\ ~HasCheckout(response))
                => /\ FormReenabled'
                   /\ Has("paymentMessage")
                      => message'.shown /\ message'.type = "error"
       /\ display.processing = "block" => InFlight = 1
      ]_vars

\* C13 witness: the gateway declined a live submission: the page with a
\* processing indicator shows the form again, with the gateway's message
C13_Witness ==
    /\ LiveMode /\ nSubmits = 1 /\ Has("paymentProcessing")
    /\ FormReenabled
    /\ message = [shown |-> TRUE, type |-> "error",
                  text |-> CreationFailedPrefix \o "declined"]

\* the error a failed creation is specified to carry: the network error for a
\* transport failure, else the gateway's message, else the default message
SpecifiedCreationError(response) ==
    IF response = TransportFailure THEN CreateNetworkError
    ELSE IF response.message \in {Undefined, ""} THEN DefaultCreationMessage
    ELSE response.message

\* C14: in live mode, when the gateway's answer to a submission is not a
\* success with a checkout URL, the submission fails with the creation error
\* carrying the gateway's message (the default message when the answer has
\* none), and when the transport fails it fails with the network error; the
\* browser stays on the page, the request is over and the history and the
\* visible location are unchanged.
C14_CreationFailure ==
    [][LiveMode =>
        \A i \in DOMAIN requests :
            \A response \in CreateResponses \cup {TransportFailure} :
                (/\ SessionSettled(i, response)
                 /\ \/ response = TransportFailure
                    \/ ~response.success
                    \/ response.checkout_url \in {Undefined, ""})
                => /\ page' = "ready" /\ checkout' = <<>>
                   /\ requests' = <<>>
                   /\ storage' = storage /\ search' = search
                   /\ Has("paymentMessage")
                      => message' =
                           [shown |-> TRUE, type |-> "error",
                            text |-> CreationFailedPrefix
                                       \o SpecifiedCreationError(response)]
      ]_vars

\* C14 witness: the request of a live submission failed in transport: the
\* network error is shown on the page, whose log is empty
C14_Witness ==
    /\ LiveMode /\ nSubmits = 1 /\ page = "ready" /\ nLoads = 1
    /\ message = [shown |-> TRUE, type |-> "error",
                  text |-> CreationFailedPrefix \o CreateNetworkError]
    /\ requests = <<>> /\ checkout = <<>> /\ storage = NoItem

\* the step ends a simulated submission in success: the summary is shown in
\* place of the form and one record more is stored
SuccessOutcome ==
    /\ display'.success = "block" /\ display'.form = "none"
    /\ display'.processing = "none"
    /\ OneAppended(History, ReadHistory(storage'))

\* the step ends a simulated submission in failure: the failure is shown as an
\* error, the form is shown again and nothing is stored
FailureOutcome ==
    /\ display'.form = "block" /\ display'.success = "none"
    /\ display'.processing = "none"
    /\ storage' = storage
    /\ Has("paymentMessage")
       => message' = [shown |-> TRUE, type |-> "error", text |-> PaymentFailedText]

\* C15: in simulated mode (the test flag set, or the earlier handler) a
\* submission that passes validation starts one 2000 ms timer and sends no
\* gateway request; on a page with the success summary, the timer callback
\* that takes the submission out of flight ends it in exactly one outcome:
\* success, the summary shown and one record appended, or failure, the error
\* shown and the form shown again; the callback that only announces the
\* redirect (scripts/payment.js) keeps it in flight and stores nothing.
C15_SimulatedOutcome ==
    [][Simulated =>
        /\ requests = <<>>
        /\ (handlePaymentSubmit /\ ValidationError(form) = "")
           => /\ requests' = <<>>
              /\ simTimers' = <<Closure(form)>> /\ doneTimers' = <<>>
        /\ \A i \in DOMAIN simTimers : \A n \in RandomNumbers :
             /\ SimulationCallback(i, FALSE, n)
                => /\ InFlight' = 0
                   /\ SummaryPresent => FailureOutcome /\ ~SuccessOutcome
             /\ SimulationCallback(i, TRUE, n)
                => IF variant = "securepay"
                   THEN /\ InFlight' = 1 /\ doneTimers' = <<simTimers[i]>>
                        /\ UNCHANGED <<display, storage>>
                   ELSE /\ InFlight' = 0
                        /\ SummaryPresent => SuccessOutcome /\ ~FailureOutcome
        /\ \A i \in DOMAIN doneTimers : \A n \in RandomNumbers :
             CompletionCallback(i, n)
             => /\ InFlight' = 0
                /\ SummaryPresent => SuccessOutcome /\ ~FailureOutcome
      ]_vars

\* C15 witness: on the test-mode page a first submission failed and a second
\* one, announced as redirecting, ended in success: one record, summary shown
C15_Witness ==
    /\ variant = "securepay" /\ isTestMode /\ SummaryPresent
    /\ nSubmits = 2 /\ InFlight = 0 /\ page = "ready"
    /\ Len(History) = 1 /\ "transaction_id" \in DOMAIN History[1]
    /\ display.success = "block" /\ display.form = "none"
    /\ message.text = RedirectingText

\* C16: the reference ids of the payloads built in one page session are
\* pairwise different.
C16_ReferenceIdsUnique ==
    \A i \in DOMAIN references : \A j \in DOMAIN references :
        i # j => references[i] # references[j]

\* the location asks for the status lookup of a payment
AsksForLookup(s) ==
    SearchGet(s, "payment_status") = "completed" /\ ~IsFalsy(SearchGet(s, "payment_id"))

\* C17: in scripts/payment.js the step that registers the submit listener of
\* a page load has inspected the return parameters first and exactly once (one
\* lookup for a completed payment id, the cancellation handled, else nothing);
\* before that step nothing of the payment flow has started in the document,
\* a lookup is started by no other step, and a submission is handled only
\* after it: when the location asks for a lookup, that lookup has been sent
\* by the time a submission starts.
C17_ReconciliationFirst ==
    [][/\ (variant = "securepay" /\ page = "loading" /\ page' = "ready")
          => IF AsksForLookup(search)
             THEN /\ lookups' = <<SearchGet(search, "payment_id")>>
                  /\ reconciliation' = "pending"
             ELSE IF SearchGet(search, "payment_status") = "cancelled"
             THEN lookups' = <<>> /\ reconciliation' = "cancelled"
             ELSE lookups' = <<>> /\ UNCHANGED <<search, message, reconciliation>>
       /\ page = "loading"
          => InFlight = 0 /\ lookups = <<>> /\ references = <<>>
       /\ Len(lookups') > Len(lookups) => page = "loading" /\ page' = "ready"
       /\ handlePaymentSubmit
          => /\ page = "ready"
             /\ (variant = "securepay" /\ AsksForLookup(search))
                => reconciliation \in {"pending", "unverified", "error"}
      ]_vars

\* C17 witness: back from the gateway, the second load has sent the lookup of
\* the returned payment and a second submission was started while it is pending
C17_Witness ==
    /\ nLoads = 2 /\ nSubmits = 2 /\ page = "ready"
    /\ reconciliation = "pending" /\ lookups = <<"P2">>
    /\ Len(requests) = 1 /\ Len(references) = 1

\* C18: a page load whose location has payment_status=completed and no
\* payment id (none, or an empty one) does what a load without the marker
\* does: no status lookup is sent, no message is shown, the history, the
\* visible location and the display regions stay as they are.
C18_CompletedWithoutIdIsNoOp ==
    [][(/\ DOMContentLoaded
        /\ variant = "securepay"
        /\ \/ SearchGet(search, "payment_status") = Undefined
           \/ /\ SearchGet(search, "payment_status") = "completed"
              /\ SearchGet(search, "payment_id") \in {Undefined, ""})
       => /\ lookups' = <<>>
          /\ UNCHANGED <<message, hideTimers, storage, search, display,
                         reconciliation>>
      ]_vars

\* C18 witness: the page at ?payment_status=completed was loaded and refreshed:
\* the marker is still there, nothing was looked up, shown or stored
C18_Witness ==
    /\ nLoads = 2 /\ page = "ready"
    /\ search = <<Pair("payment_status", "completed")>>
    /\ reconciliation = "none" /\ lookups = <<>>
    /\ message = NoMessage /\ storage = NoItem

\* the amount is a decimal literal greater than 0
PositiveAmount(s) ==
    IsNumeric(s) /\ ~parseFloat(s).neg /\ parseFloat(s).mag > 0

\* the decimal value of the literal s rounded to 2 decimal places, a half
\* rounded up, written with two decimals
RoundedToCents(s) ==
    LET unit == 10 ^ (FracDigits - 2)
        n    == (parseFloat(s).mag + unit \div 2) \div unit
    IN  NatToChars(n \div 100)
        \o <<".", DigitChars[((n \div 10) % 10) + 1], DigitChars[(n % 10) + 1]>>

\* C19: for every amount greater than 0 a submission with a method and an
\* email passes validation, and the amount of the payload built for the
\* gateway is the amount rounded to 2 decimal places.
C19_AmountRoundedToCents ==
    [][(/\ handlePaymentSubmit
        /\ PositiveAmount(form.amount)
        /\ ~IsFalsy(form.method)
        /\ variant = "securepay" => ~IsFalsy(form.email))
       => /\ Accepted
          /\ LiveMode
             => requests'[Len(requests')].amount = RoundedToCents(form.amount)
      ]_vars

\* the record is the result of a simulated success or a gateway result that
\* reports the payment paid
SuccessfulPayment(r) ==
    IF "success" \in DOMAIN r
    THEN r.success /\ r.status = "paid"
    ELSE r.status = "success"

\* C20: the stored history changes only by one record of a successful payment
\* being appended, in the callback that completes a simulated success or in
\* the answer of a status lookup that reports paid; a submission (rejected or
\* accepted), a simulated failure, a gateway answer to a submission, a page
\* load (a cancelled return included) and a lookup that confirms nothing
\* leave it as it is: no step that changes it is one of these.
C20_OnlySuccessfulPaymentsRecorded ==
    [][/\ storage' # storage =>
          \A old \in {History} : \A new \in {ReadHistory(storage')} :
              /\ OneAppended(old, new)
              /\ SuccessfulPayment(new[Len(new)])
              /\ \/ \E i \in DOMAIN doneTimers : \E n \in RandomNumbers :
                        CompletionCallback(i, n)
                 \/ /\ variant = "legacy"
                    /\ \E i \in DOMAIN simTimers : \E n \in RandomNumbers :
                            SimulationCallback(i, TRUE, n)
                 \/ \E i \in DOMAIN lookups : \E result \in StatusResults(lookups[i]) :
                        StatusSettled(i, result) /\ ~NotConfirmed(result)
       /\ storage' # storage =>
          /\ ~(handlePaymentSubmit \/ DOMContentLoaded \/ PaymentSessionSettled
               \/ Reload \/ GatewayReturn \/ EditForm \/ HideMessageTimeout)
          /\ \A i \in DOMAIN simTimers : \A n \in RandomNumbers :
                ~SimulationCallback(i, FALSE, n)
      ]_vars

\* C20 witness: on the earlier page a first submission failed and a second
\* one succeeded: the log holds the one record of the success
C20_Witness ==
    /\ variant = "legacy" /\ nSubmits = 2 /\ page = "ready"
    /\ Len(History) = 1 /\ History[1].status = "success"
    /\ "transactionId" \in DOMAIN History[1]
    /\ message.text = PaymentFailedText
    /\ display.success = "block"

(***************************************************************************)
(* The summary region and the stored record                                *)
(***************************************************************************)
\* the step calls showPaymentComplete: the callback that completes a simulated
\* success, or the answer of a status lookup that reports the payment paid
CompletesPayment ==
    \/ \E i \in DOMAIN doneTimers : \E n \in RandomNumbers : CompletionCallback(i, n)
    \/ /\ variant = "legacy"
       /\ \E i \in DOMAIN simTimers : \E n \in RandomNumbers :
            SimulationCallback(i, TRUE, n)
    \/ \E i \in DOMAIN lookups : \E result \in StatusResults(lookups[i]) :
            ReportsPaid(result) /\ StatusSettled(i, result)

\* the success summary exists and is shown once the step is over
SummaryShown == Has("paymentSuccess") /\ display'.success = "block"

\* C21: a step that calls showPaymentComplete appends the history record
\* exactly when the success-summary region exists and is shown: without the
\* region nothing is stored, with it the record is stored, and whenever the
\* stored history changes the summary is visible after that step.
C21_SavedExactlyWhenSummaryShown ==
    [][/\ storage' # storage => display'.success = "block"
       /\ CompletesPayment => (storage' # storage <=> SummaryShown)
      ]_vars

\* the ends of a reconciliation that confirmed nothing: the lookup answered
\* without a confirmation, or the handler of its failure ran
Unconfirmed == {"unverified", "error"}

\* C22: a status lookup that ends in a verification failure or a transport
\* error leaves the visible location as it is, payment_status=completed and the
\* payment_id of that lookup included; the location stays so while the page is
\* kept and refreshed, and the load of every refresh that follows sends the
\* status lookup for the payment id of the location again.
C22_FailedReconciliationRepeats ==
    [][/\ \A i \in DOMAIN lookups :
            \A result \in StatusResults(lookups[i]) \cup {TransportFailure} :
                (StatusSettled(i, result) /\ NotConfirmed(result))
                => /\ search' = search
                   /\ SearchGet(search', "payment_status") = "completed"
                   /\ SearchGet(search', "payment_id") = lookups[i]
                   /\ reconciliation' \in Unconfirmed
       /\ (reconciliation \in Unconfirmed /\ reconciliation' \in Unconfirmed)
          => search' = search
       /\ (reconciliation \in Unconfirmed /\ Reload)
          => /\ reconciliation' = reconciliation
             /\ page' = "loading"
       /\ (reconciliation \in Unconfirmed /\ DOMContentLoaded)
          => /\ search' = search
             /\ lookups' = <<SearchGet(search, "payment_id")>>
             /\ reconciliation' = "pending"
      ]_vars

\* C22 witness: the lookup of the first load was answered without a
\* confirmation and the page was refreshed: the location still names the
\* payment, whose status the load that follows looks up again
C22_Witness ==
    /\ nLoads = 2 /\ page = "loading"
    /\ reconciliation = "unverified"
    /\ SearchGet(search, "payment_status") = "completed"
    /\ SearchGet(search, "payment_id") = "P1"
    /\ storage = NoItem /\ lookups = <<>>

(***************************************************************************)
(* The three display regions                                               *)
(***************************************************************************)
\* the page has the three display regions (paymentForm is always there)
RegionsPresent == Has("paymentProcessing") /\ Has("paymentSuccess")

\* the regions of d that are visible
VisibleRegions(d) == {r \in DOMAIN d : d[r] = "block"}

\* the step calls showPaymentProcessing: a submission that passes validation,
\* the callback of a simulated failure, the catch handler of a live submission
CallsShowPaymentProcessing ==
    \/ handlePaymentSubmit /\ Accepted
    \/ \E i \in DOMAIN simTimers : \E n \in RandomNumbers :
            SimulationCallback(i, FALSE, n)
    \/ \E i \in DOMAIN requests :
         \E response \in CreateResponses \cup {TransportFailure} :
            ~HasCheckout(response) /\ SessionSettled(i, response)

\* C23: on a page with all three display regions, after every step that calls
\* showPaymentProcessing or showPaymentComplete exactly one of the form, the
\* processing indicator and the success summary is visible, whatever the order
\* of the callbacks of submissions and of reconciliation.
C23_ExactlyOneRegionVisible ==
    [][(RegionsPresent /\ (CallsShowPaymentProcessing \/ CompletesPayment))
       => Cardinality(VisibleRegions(display')) = 1]_vars

\* C23 witness: while the status lookup was pending a simulated submission was
\* made; the lookup then reported paid and showed the summary, and the failure
\* callback of the submission brought the form back in its place
C23_Witness ==
    /\ elems = OptionalElements
    /\ variant = "securepay" /\ isTestMode
    /\ nLoads = 1 /\ nSubmits = 1 /\ InFlight = 0
    /\ reconciliation = "verified" /\ Len(History) = 1
    /\ message.text = PaymentFailedText
    /\ display = [form |-> "block", processing |-> "none", success |-> "none"]

====
